---- MODULE Spec2Model ----
(***************************************************************************)
(* A model of misc/imgconvnets.py: the ImgConvNets constructor, the        *)
(* training loop of ImgConvNets.train with its batch iteration, its        *)
(* learning-rate schedule and its checkpoint saving, and the checkpoint    *)
(* lookup of ImgConvNets.predict.                                          *)
(*                                                                         *)
(* Units.  An accuracy returned by one optimisation step is a fraction in  *)
(* [0, 1]; it is modelled as an integer number of 1e-4 (so 9968 is         *)
(* 0.9968).  mean_accu and last_accu are percentages; they are modelled    *)
(* as exact fractions [num, den] of 0.01 percent, so that the threshold    *)
(* 99.68 is the integer 9968 and the comparisons are exact.  Learning      *)
(* rates are integers in units of 1e-7 (4e-4 is 4000, 9.2e-5 is 920).      *)
(*                                                                         *)
(* The tensor engine is the environment: the accuracy of a step is an      *)
(* input drawn from AccuVals, and a graph, a session and a checkpoint      *)
(* directory are the records the code's calls leave behind.                *)
(***************************************************************************)
EXTENDS Integers, Sequences, FiniteSets, TLC

\* ---------------------------------------------------------------- bounds
MaxEpoches == 3
MaxRows == 2
MaxBatchSize == 2
\* The batch loop on its own (SpecBatch) runs on larger sets and batches.
MaxBatchRows == 4
MaxBatchLoopSize == 9

\* ---------------------------------------------------------------- inputs
Models == {"BASIC", "DCNN", "STCNN", "LENET"}
ImgHeights == {4}
ImgWidths == {4}
ColCounts == {8, 16, 17}
LearningRates == {1000, 5000}
\* Step accuracies: their one- and two-step means fall in every band of the
\* schedule (9900, 9950, 9960, 9968 and 9976 are met exactly; 9988 lies
\* in the band of 9984 and 10000 in that of 9992) and reach 9999.
AccuVals == {9900, 9960, 9976, 10000}
ResultFile == "model"

\* ------------------------------------------------------- program constants
\* saver.save(sess, save_file) without global_step: the name has no suffix.
NoStep == 0
MaxToKeep == 10

\* ---------------------------------------------------------------- helpers
Min(a, b) == IF a < b THEN a ELSE b

RECURSIVE SeqSum(_)
SeqSum(s) == IF s = <<>> THEN 0 ELSE Head(s) + SeqSum(Tail(s))

\* A fraction num/den (den > 0) compared with an integer or a fraction.
Frac(n, d) == [num |-> n, den |-> d]
FracGeq(f, k) == f.num >= k * f.den
FracGt(f, g) == f.num * g.den > g.num * f.den

\* Python's s[lo:hi] for 0 <= lo and 0 <= hi (indices are clamped to len).
PySlice(s, lo, hi) == SubSeq(s, lo + 1, Min(hi, Len(s)))

\* np.random.permutation over the rows 1..rows of the training matrix: every
\* order of the rows is a possible outcome.
Permutation(rows) ==
    {p \in [1..rows -> 1..rows] : \A i, j \in 1..rows : p[i] = p[j] => i = j}

\* math.ceil(rows / batch_size)
EpochSteps(rows, batch_size) == (rows + batch_size - 1) \div batch_size

\* A variant of the assertion: 'assert model == "BASIC" or "DCNN" or "STCNN"',
\* which Python takes as true for every model.
ModelAssertionTruthy(model) == model = "BASIC" \/ TRUE \/ TRUE

\* The assertion of __init__.
ModelAssertion(model) == model = "BASIC" \/ model = "DCNN" \/ model = "STCNN"

\* A variant of the check: the image size taken as height + width.
DimensionMismatchSum(cols, img_height, img_width) == cols # img_height + img_width

\* The check at the head of train.
DimensionMismatch(cols, img_height, img_width) == cols # img_height * img_width

\* The dispatch of train on self.model.
InferenceGraph(model) ==
    IF model = "STCNN" THEN "stcnn"
    ELSE IF model = "DCNN" THEN "dcnn"
    ELSE "basic"

_get_next_batch(data_set, start_index, batch_size) ==
    LET cnt == Len(data_set)
        start == IF start_index >= cnt THEN start_index % cnt ELSE start_index
        end == start + batch_size
    IN  IF end < cnt
        THEN PySlice(data_set, start, end)
        ELSE PySlice(data_set, start, cnt) \o PySlice(data_set, 0, end % cnt)

\* A variant of the schedule: the adaptive rate of the lowest band is the
\* constructor's learning_rate.
GetLearningRateBase(learning_rate, lr_adaptive, last_accu) ==
    IF ~lr_adaptive THEN learning_rate
    ELSE IF FracGeq(last_accu, 9992) THEN 920
    ELSE IF FracGeq(last_accu, 9984) THEN 1000
    ELSE IF FracGeq(last_accu, 9976) THEN 1200
    ELSE IF FracGeq(last_accu, 9968) THEN 1600
    ELSE IF FracGeq(last_accu, 9960) THEN 2000
    ELSE IF FracGeq(last_accu, 9950) THEN 2400
    ELSE IF FracGeq(last_accu, 9900) THEN 3200
    ELSE learning_rate

\* A variant of the schedule: the rates of the bands 99.76 and 99.68 swapped.
GetLearningRateSwapped(learning_rate, lr_adaptive, last_accu) ==
    IF ~lr_adaptive THEN learning_rate
    ELSE IF FracGeq(last_accu, 9992) THEN 920
    ELSE IF FracGeq(last_accu, 9984) THEN 1000
    ELSE IF FracGeq(last_accu, 9976) THEN 1600
    ELSE IF FracGeq(last_accu, 9968) THEN 1200
    ELSE IF FracGeq(last_accu, 9960) THEN 2000
    ELSE IF FracGeq(last_accu, 9950) THEN 2400
    ELSE IF FracGeq(last_accu, 9900) THEN 3200
    ELSE 4000

_get_learning_rate(learning_rate, lr_adaptive, last_accu) ==
    IF ~lr_adaptive THEN learning_rate
    ELSE IF FracGeq(last_accu, 9992) THEN 920
    ELSE IF FracGeq(last_accu, 9984) THEN 1000
    ELSE IF FracGeq(last_accu, 9976) THEN 1200
    ELSE IF FracGeq(last_accu, 9968) THEN 1600
    ELSE IF FracGeq(last_accu, 9960) THEN 2000
    ELSE IF FracGeq(last_accu, 9950) THEN 2400
    ELSE IF FracGeq(last_accu, 9900) THEN 3200
    ELSE 4000

\* sum(accu_list)*100/len(accu_list)
MeanAccu(accu_list) == Frac(SeqSum(accu_list), Len(accu_list))

\* The two save conditions of train, in the order the code tests them:
\* the step suffix of the checkpoint to write, NoStep for a checkpoint without
\* suffix, -1 when nothing is saved.
SaveStep(mean_accu, last_accu, epoch, num_epoches) ==
    IF FracGeq(mean_accu, 9968) /\ FracGt(mean_accu, last_accu) THEN epoch
    ELSE IF epoch = num_epoches - 1 THEN NoStep
    ELSE -1

\* mean_accu >= 99.99: break
BreakLoop(mean_accu) == FracGeq(mean_accu, 9999)

\* tf.train.Saver(max_to_keep=10).save: the name is listed last among the
\* saver's checkpoints and the oldest ones beyond max_to_keep are deleted.
SaverList(last_checkpoints, name) ==
    LET kept == SelectSeq(last_checkpoints, LAMBDA c : c # name) \o <<name>>
    IN  IF Len(kept) > MaxToKeep THEN Tail(kept) ELSE kept

SaverFiles(files, last_checkpoints, name) ==
    LET kept == SelectSeq(last_checkpoints, LAMBDA c : c # name) \o <<name>>
    IN  IF Len(kept) > MaxToKeep
        THEN (files \cup {name}) \ {Head(kept)}
        ELSE files \cup {name}

\* ---------------------------------------------------------------- state
VARIABLES
    pc,               \* where the caller and train are
    model_arg,        \* the model argument given to the constructor
    self,             \* the fields of the ImgConvNets object
    cols,             \* train: column count of img_features
    train_set,        \* train: the rows of the training matrix, permuted
    graph,            \* train: the inference graph built, or "none"
    sess,             \* train: "none", "open" or "closed"
    epoch, step,      \* train: the loop counters
    last_accu,        \* train: a fraction
    accu_list,        \* train: the accuracies of the epoch so far
    lr_feed,          \* train: the learning rate of the epoch
    batch_data,       \* train: the batch of the last step
    files,            \* the checkpoints in train_dir, as <<file, step>>
    last_checkpoints, \* the saver's list of checkpoints
    steps_run,        \* number of optimisation steps run
    epoch_feeds,      \* the learning rates fed to the steps of the epoch
    epoch_accu,       \* sum and count of the accuracies the engine returned
                      \* in the steps of the epoch
    prev_accu,        \* their mean in the epoch before, a fraction
    other_learning_rate, \* a second run that differs in learning_rate only
    other_lr_feed,
    other_feeds

vars == <<pc, model_arg, self, cols, train_set, graph, sess, epoch, step,
          last_accu, accu_list, lr_feed, batch_data, files, last_checkpoints,
          steps_run, epoch_feeds, epoch_accu, prev_accu,
          other_learning_rate, other_lr_feed, other_feeds>>

trainVars == <<cols, train_set, graph, sess, epoch, step, last_accu,
               accu_list, lr_feed, batch_data, files, last_checkpoints,
               steps_run, epoch_feeds, epoch_accu, prev_accu, other_lr_feed,
               other_feeds>>

NoObject ==
    [model |-> "", img_height |-> 0, img_width |-> 0, learning_rate |-> 0,
     lr_adaptive |-> FALSE, batch_size |-> 0, num_epoches |-> 0]

InitLocals ==
    /\ cols = 0
    /\ train_set = <<>>
    /\ graph = "none"
    /\ sess = "none"
    /\ epoch = 0
    /\ step = 0
    /\ last_accu = Frac(0, 1)
    /\ accu_list = <<>>
    /\ lr_feed = 0
    /\ batch_data = <<>>
    /\ files = {}
    /\ last_checkpoints = <<>>
    /\ steps_run = 0
    /\ epoch_feeds = {}
    /\ epoch_accu = Frac(0, 0)
    /\ prev_accu = Frac(0, 1)
    /\ other_lr_feed = 0
    /\ other_feeds = {}

Init ==
    /\ pc = "new"
    /\ model_arg = ""
    /\ self = NoObject
    /\ other_learning_rate = 0
    /\ InitLocals

\* ImgConvNets(model, ..., learning_rate, lr_adaptive, batch_size, num_epoches)
Construct ==
    /\ pc = "new"
    /\ \E model \in Models, img_height \in ImgHeights, img_width \in ImgWidths,
          learning_rate \in LearningRates, lr_adaptive \in BOOLEAN,
          batch_size \in 1..MaxBatchSize, num_epoches \in 1..MaxEpoches :
         /\ model_arg' = model
         /\ IF ModelAssertion(model)
            THEN /\ self' = [model |-> model, img_height |-> img_height,
                             img_width |-> img_width,
                             learning_rate |-> learning_rate,
                             lr_adaptive |-> lr_adaptive,
                             batch_size |-> batch_size,
                             num_epoches |-> num_epoches]
                 /\ \E other \in LearningRates \ {learning_rate} :
                        other_learning_rate' = other
                 /\ pc' = "constructed"
            ELSE /\ pc' = "AssertionError"
                 /\ UNCHANGED <<self, other_learning_rate>>
    /\ UNCHANGED trainVars

\* train, up to the permutation of the training set.
TrainEnter ==
    /\ pc = "constructed"
    /\ \E rows \in 1..MaxRows, c \in ColCounts :
         /\ cols' = c
         /\ IF DimensionMismatch(c, self.img_height, self.img_width)
            THEN /\ pc' = "ValueError"
                 /\ UNCHANGED train_set
            ELSE /\ pc' = "build"
                 /\ \E p \in Permutation(rows) : train_set' = p
    /\ UNCHANGED <<model_arg, self, graph, sess, epoch, step, last_accu,
                   accu_list, lr_feed, batch_data, files, last_checkpoints,
                   steps_run, epoch_feeds, epoch_accu, prev_accu,
                   other_learning_rate,
                   other_lr_feed, other_feeds>>

\* train: the graph is built and the saver created.
BuildGraph ==
    /\ pc = "build"
    /\ graph' = InferenceGraph(self.model)
    /\ last_checkpoints' = <<>>
    /\ pc' = "session"
    /\ UNCHANGED <<model_arg, self, cols, train_set, sess, epoch, step,
                   last_accu, accu_list, lr_feed, batch_data, files,
                   steps_run, epoch_feeds, epoch_accu, prev_accu,
                   other_learning_rate,
                   other_lr_feed, other_feeds>>

\* train: the session is opened and the loop variables are set.
OpenSession ==
    /\ pc = "session"
    /\ sess' = "open"
    /\ accu_list' = <<>>
    /\ last_accu' = Frac(0, 1)
    /\ epoch' = 1
    /\ pc' = "epoch"
    /\ UNCHANGED <<model_arg, self, cols, train_set, graph, step, lr_feed,
                   batch_data, files, last_checkpoints, steps_run,
                   epoch_feeds, epoch_accu, prev_accu,
                   other_learning_rate,
                   other_lr_feed, other_feeds>>

\* train: the head of one pass of the epoch loop.
EpochBegin ==
    /\ pc = "epoch"
    /\ lr_feed' = _get_learning_rate(self.learning_rate, self.lr_adaptive,
                                     last_accu)
    /\ other_lr_feed' = _get_learning_rate(other_learning_rate,
                                           self.lr_adaptive, last_accu)
    /\ step' = 0
    /\ epoch_feeds' = {}
    /\ other_feeds' = {}
    /\ epoch_accu' = Frac(0, 0)
    /\ pc' = "step"
    /\ UNCHANGED <<model_arg, self, cols, train_set, graph, sess, epoch,
                   last_accu, accu_list, batch_data, files, last_checkpoints,
                   steps_run, prev_accu, other_learning_rate>>

\* train: one optimisation step; the engine returns the batch's accuracy.
Step ==
    /\ pc = "step"
    /\ step < EpochSteps(Len(train_set), self.batch_size)
    /\ batch_data' = _get_next_batch(train_set, step * self.batch_size,
                                     self.batch_size)
    /\ \E accu_val \in AccuVals :
         /\ accu_list' = Append(accu_list, accu_val)
         /\ epoch_accu' = Frac(epoch_accu.num + accu_val, epoch_accu.den + 1)
    /\ epoch_feeds' = epoch_feeds \cup {lr_feed}
    /\ other_feeds' = other_feeds \cup {other_lr_feed}
    /\ steps_run' = steps_run + 1
    /\ step' = step + 1
    /\ UNCHANGED <<pc, model_arg, self, cols, train_set, graph, sess, epoch,
                   last_accu, lr_feed, files, last_checkpoints, prev_accu,
                   other_learning_rate, other_lr_feed>>

\* train: the end of one pass of the epoch loop: the mean, the save, the
\* break, the reset; after the last pass the session closes and train returns.
EpochEnd ==
    /\ pc = "step"
    /\ step = EpochSteps(Len(train_set), self.batch_size)
    /\ LET mean_accu == MeanAccu(accu_list)
           save == SaveStep(mean_accu, last_accu, epoch, self.num_epoches)
           name == <<ResultFile, save>>
       IN  /\ IF save = -1
              THEN UNCHANGED <<files, last_checkpoints>>
              ELSE /\ files' = SaverFiles(files, last_checkpoints, name)
                   /\ last_checkpoints' = SaverList(last_checkpoints, name)
           /\ IF BreakLoop(mean_accu)
              THEN /\ pc' = "returned"
                   /\ sess' = "closed"
                   /\ UNCHANGED <<accu_list, last_accu, epoch>>
              ELSE /\ accu_list' = <<>>
                   /\ last_accu' = mean_accu
                   /\ IF epoch = self.num_epoches
                      THEN /\ pc' = "returned"
                           /\ sess' = "closed"
                           /\ UNCHANGED epoch
                      ELSE /\ pc' = "epoch"
                           /\ epoch' = epoch + 1
                           /\ UNCHANGED sess
    /\ prev_accu' = epoch_accu
    /\ UNCHANGED <<model_arg, self, cols, train_set, graph, step, lr_feed,
                   batch_data, steps_run, epoch_feeds, epoch_accu,
                   other_learning_rate, other_lr_feed, other_feeds>>

\* predict(model_scope, train_dir, result_file, ...): the meta graph and the
\* variables are read from the checkpoint named result_file.
Predict ==
    /\ pc = "returned"
    /\ pc' = IF <<ResultFile, NoStep>> \in files THEN "predicted" ELSE "NotFound"
    /\ UNCHANGED <<model_arg, self, other_learning_rate>>
    /\ UNCHANGED trainVars

Next ==
    \/ Construct
    \/ TrainEnter
    \/ BuildGraph
    \/ OpenSession
    \/ EpochBegin
    \/ Step
    \/ EpochEnd
    \/ Predict

Spec == Init /\ [][Next]_vars

\* ------------------------------------------------- the batch loop alone
\* One pass of train's loop over the batches of an epoch, for a training
\* set of 1..MaxBatchRows rows and a batch_size of 1..MaxBatchLoopSize.
InitBatch ==
    /\ pc = "batch_loop"
    /\ model_arg = "BASIC"
    /\ other_learning_rate = 0
    /\ \E batch_size \in 1..MaxBatchLoopSize :
           self = [NoObject EXCEPT !.model = "BASIC", !.batch_size = batch_size]
    /\ \E rows \in 1..MaxBatchRows : train_set \in Permutation(rows)
    /\ cols = 0
    /\ graph = "none"
    /\ sess = "none"
    /\ epoch = 0
    /\ step = 0
    /\ last_accu = Frac(0, 1)
    /\ accu_list = <<>>
    /\ lr_feed = 0
    /\ batch_data = <<>>
    /\ files = {}
    /\ last_checkpoints = <<>>
    /\ steps_run = 0
    /\ epoch_feeds = {}
    /\ epoch_accu = Frac(0, 0)
    /\ prev_accu = Frac(0, 1)
    /\ other_lr_feed = 0
    /\ other_feeds = {}

BatchStep ==
    /\ pc = "batch_loop"
    /\ step < EpochSteps(Len(train_set), self.batch_size)
    /\ batch_data' = _get_next_batch(train_set, step * self.batch_size,
                                     self.batch_size)
    /\ steps_run' = steps_run + 1
    /\ step' = step + 1
    /\ UNCHANGED <<pc, model_arg, self, cols, train_set, graph, sess, epoch,
                   last_accu, accu_list, lr_feed, files, last_checkpoints,
                   epoch_feeds, epoch_accu, prev_accu, other_learning_rate,
                   other_lr_feed, other_feeds>>

BatchLoopEnd ==
    /\ pc = "batch_loop"
    /\ step = EpochSteps(Len(train_set), self.batch_size)
    /\ pc' = "batch_done"
    /\ UNCHANGED <<model_arg, self, other_learning_rate>>
    /\ UNCHANGED trainVars

NextBatch ==
    \/ BatchStep
    \/ BatchLoopEnd

SpecBatch == InitBatch /\ [][NextBatch]_vars

\* ---------------------------------------------------------------- claims
\* train has been entered (the object exists and train was called).
InTrain ==
    pc \in {"ValueError", "build", "session", "epoch", "step", "returned",
            "predicted", "NotFound"}

\* C1: after train returns normally, a checkpoint named exactly result_file
\* (without a step suffix) exists in train_dir, so that predict finds it.
C1_SavedUnderResultFile ==
    pc = "returned" => <<ResultFile, NoStep>> \in files

\* C2: every batch fed to an optimisation step has exactly batch_size rows,
\* for every training-set size and every batch_size, also when the batch
\* wraps around the end of the set.
C2_BatchHasBatchSizeRows ==
    steps_run > 0 => Len(batch_data) = self.batch_size

\* C3: train raises ValueError exactly when the column count differs from
\* img_height * img_width, and then nothing else has happened: no graph, no
\* session, no optimisation step, no checkpoint.
C3_MismatchRejectedFirst ==
    /\ pc = "ValueError" =>
          /\ cols # self.img_height * self.img_width
          /\ train_set = <<>>
          /\ graph = "none"
          /\ sess = "none"
          /\ steps_run = 0
          /\ files = {}
          /\ last_checkpoints = <<>>
    /\ (InTrain /\ cols # self.img_height * self.img_width) => pc = "ValueError"

C3_Witness ==
    /\ pc = "ValueError"
    /\ cols = 17
    /\ self.img_height * self.img_width = 16

\* C4: a model other than 'BASIC', 'DCNN' or 'STCNN' fails the constructor's
\* assertion, and train builds the spatial-transformer graph exactly for
\* 'STCNN', the factorized deep graph exactly for 'DCNN' and the basic graph
\* exactly for 'BASIC'.
C4_OnlyThreeArchitectures ==
    /\ pc # "new" =>
          (pc = "AssertionError" <=> model_arg \notin {"BASIC", "DCNN", "STCNN"})
    /\ pc \notin {"new", "AssertionError"} => self.model = model_arg
    /\ pc = "AssertionError" => (self = NoObject /\ graph = "none")
    /\ graph # "none" =>
          /\ graph = "stcnn" <=> model_arg = "STCNN"
          /\ graph = "dcnn" <=> model_arg = "DCNN"
          /\ graph = "basic" <=> model_arg = "BASIC"

C4_Witness ==
    /\ graph = "dcnn"
    /\ model_arg = "DCNN"
    /\ pc = "returned"

\* C5: with lr_adaptive True, a run that differs only in learning_rate is fed
\* the same learning rate at every step; with lr_adaptive False every step is
\* fed exactly learning_rate.
C5_LearningRateIgnoredOrExact ==
    InTrain =>
        /\ self.lr_adaptive =>
              /\ other_lr_feed = lr_feed
              /\ other_feeds = epoch_feeds
        /\ ~self.lr_adaptive => epoch_feeds \subseteq {self.learning_rate}

C5_Witness ==
    /\ self.lr_adaptive
    /\ other_learning_rate # self.learning_rate
    /\ epoch = 2
    /\ epoch_feeds = {lr_feed}
    /\ other_feeds = {lr_feed}
    /\ lr_feed # self.learning_rate
    /\ lr_feed # other_learning_rate

\* Accuracies around every threshold of the schedule, in 0.01 percent.
AccuGrid ==
    {0, 9899, 9900, 9949, 9950, 9959, 9960, 9967, 9968, 9975, 9976, 9983,
     9984, 9991, 9992, 9999, 10000}

\* The adaptive rate at every accuracy of the grid, for each learning_rate.
GridRates ==
    [r \in LearningRates, a \in AccuGrid |->
        _get_learning_rate(r, TRUE, Frac(a, 1))]

\* C6: with lr_adaptive True the learning rate of an epoch comes from the
\* mean accuracy of the steps of the epoch before only (0 for the first
\* epoch, which uses 4e-4), is the same at every step of the epoch, lies
\* between 9.2e-5 and 4e-4, and never increases when that accuracy increases
\* (the rate of the epoch is compared, where the epoch starts, with the rate
\* of every accuracy of the grid).
C6_AdaptiveSchedule ==
    (self.lr_adaptive /\ pc = "step") =>
        /\ epoch = 1 => (prev_accu = Frac(0, 1) /\ lr_feed = 4000)
        /\ epoch > 1 => prev_accu.den = EpochSteps(Len(train_set), self.batch_size)
        /\ last_accu = prev_accu
        /\ lr_feed = _get_learning_rate(self.learning_rate, TRUE, prev_accu)
        /\ epoch_feeds \subseteq {lr_feed}
        /\ step > 0 => epoch_feeds = {lr_feed}
        /\ 920 <= lr_feed /\ lr_feed <= 4000
        /\ step = 0 =>
            \A a \in AccuGrid :
              IF FracGeq(prev_accu, a)
              THEN lr_feed <= GridRates[self.learning_rate, a]
              ELSE GridRates[self.learning_rate, a] <= lr_feed

C6_Witness ==
    /\ self.lr_adaptive
    /\ pc = "step"
    /\ epoch = 3
    /\ step = 2
    /\ prev_accu = Frac(19936, 2)
    /\ lr_feed = 1600
====
